---- MODULE Spec2Model ----
(***************************************************************************)
(* Model of ecom_agent/agent.py: the three BigQuery tools (execute_sql,   *)
(* get_schema, list_tables), the keyword guardrail of execute_sql, the     *)
(* sql_validator agent tool and the before/after tool callbacks that the   *)
(* root agent registers.                                                   *)
(*                                                                         *)
(* A Python str is a sequence of one-character strings.  The BigQuery      *)
(* client, the audit sink (stdout) and the validator's language model are  *)
(* the environment: each of their answers is a nondeterministic choice.    *)
(***************************************************************************)
EXTENDS Integers, Sequences, FiniteSets, TLC

VARIABLES
    dpc,          \* position of the tool dispatch: idle, pre, body, answered, returned, raised
    req,          \* the invocation request [name, args] being dispatched
    ret,          \* what the dispatch handed back to its caller
    events,       \* order in which the hooks and the tool body were entered
    audit,        \* the lines printed by the two callbacks, in order
    tname,        \* the tool function that is executing
    targs,        \* the arguments the tool function was called with
    tpc,          \* position inside the tool function: none, entry, store, ret, raised
    tenv,         \* the dict the tool function returned
    storeCalls,   \* the bq_client operations invoked during the call, in order
    storeResult   \* what the store answered to the last operation

vars == <<dpc, req, ret, events, audit, tname, targs, tpc, tenv, storeCalls, storeResult>>

dispatchVars == <<dpc, req, ret, events, audit>>
toolVars == <<tname, targs, tpc, tenv, storeCalls, storeResult>>

(***************************************************************************)
(* Bounds of the model.                                                    *)
(***************************************************************************)
\* a query is a concatenation of at most MaxPieces pieces of Pieces
MaxPieces == 3
\* the store returns at most RowCap + ExtraRows rows to a wide query
ExtraRows == 2
\* the store returns at most MaxNarrowRows rows to any other query
MaxNarrowRows == 1
\* a table schema has at most MaxFields fields, a dataset at most MaxFields tables
MaxFields == 2

(***************************************************************************)
(* Configuration.                                                          *)
(***************************************************************************)
PROJECT_ID == "playground-s-11-6d7b503d"
DATASET_ID == "ecom_analytics"

\* rows[:50]
RowCap == 50
\* str(args)[:200]
ArgsPreviewLen == 200
\* str(tool_response)[:300]
ResponsePreviewLen == 300

None == [none |-> TRUE]

\* the keyword arguments of a tool call are a set of <<name, value>> pairs
NoArgs == {}
Args(name, value) == {<<name, value>>}
Arg(args, name) == (CHOOSE a \in args : a[1] = name)[2]

(***************************************************************************)
(* Python str operations on sequences of characters.                       *)
(***************************************************************************)
LowerLetters ==
    <<"a","b","c","d","e","f","g","h","i","j","k","l","m",
      "n","o","p","q","r","s","t","u","v","w","x","y","z">>
UpperLetters ==
    <<"A","B","C","D","E","F","G","H","I","J","K","L","M",
      "N","O","P","Q","R","S","T","U","V","W","X","Y","Z">>

Whitespace == {" ", "\t", "\n", "\r"}

OtherChars == {"_", ";", "*", "(", ")", ",", ".", "'", "1"}

Alphabet ==
    {LowerLetters[i] : i \in DOMAIN LowerLetters}
        \cup {UpperLetters[i] : i \in DOMAIN UpperLetters}
        \cup Whitespace \cup OtherChars

\* the upper-case mapping of one character
UpperChar ==
    [c \in Alphabet |->
        IF \E i \in DOMAIN LowerLetters : LowerLetters[i] = c
        THEN UpperLetters[CHOOSE i \in DOMAIN LowerLetters : LowerLetters[i] = c]
        ELSE c]

\* str.upper()
Upper(s) == [i \in DOMAIN s |-> UpperChar[s[i]]]

RECURSIVE LStrip(_)
LStrip(s) ==
    IF s # <<>> /\ Head(s) \in Whitespace THEN LStrip(Tail(s)) ELSE s

RECURSIVE RStrip(_)
RStrip(s) ==
    IF s # <<>> /\ s[Len(s)] \in Whitespace
    THEN RStrip(SubSeq(s, 1, Len(s) - 1))
    ELSE s

\* str.strip()
Strip(s) == RStrip(LStrip(s))

\* str.split() with no separator: the maximal runs of non-whitespace
\* characters, in order; `cur` is the run being read at position i
RECURSIVE SplitFrom(_, _, _)
SplitFrom(s, i, cur) ==
    IF i > Len(s)
    THEN IF cur = <<>> THEN <<>> ELSE <<cur>>
    ELSE IF s[i] \in Whitespace
         THEN IF cur = <<>>
              THEN SplitFrom(s, i + 1, <<>>)
              ELSE <<cur>> \o SplitFrom(s, i + 1, <<>>)
         ELSE SplitFrom(s, i + 1, Append(cur, s[i]))

Split(s) == SplitFrom(s, 1, <<>>)

\* the `in` operator on a str: keyword occurs as a contiguous substring
SubstringOf(keyword, s) ==
    \E i \in 1..(Len(s) - Len(keyword) + 1) :
        \A k \in 1..Len(keyword) : s[i + k - 1] = keyword[k]

(***************************************************************************)
(* The guardrail of execute_sql.                                           *)
(***************************************************************************)
BLOCKED_KEYWORDS_Reordered ==
    << <<"R","E","V","O","K","E">>,
       <<"G","R","A","N","T">>,
       <<"M","E","R","G","E">>,
       <<"C","R","E","A","T","E">>,
       <<"A","L","T","E","R">>,
       <<"I","N","S","E","R","T">>,
       <<"U","P","D","A","T","E">>,
       <<"T","R","U","N","C","A","T","E">>,
       <<"D","R","O","P">>,
       <<"D","E","L","E","T","E">> >>

BLOCKED_KEYWORDS ==
    << <<"D","E","L","E","T","E">>,
       <<"D","R","O","P">>,
       <<"T","R","U","N","C","A","T","E">>,
       <<"U","P","D","A","T","E">>,
       <<"I","N","S","E","R","T">>,
       <<"A","L","T","E","R">>,
       <<"C","R","E","A","T","E">>,
       <<"M","E","R","G","E">>,
       <<"G","R","A","N","T">>,
       <<"R","E","V","O","K","E">> >>

\* sql_upper = query.strip() without upper(): a case-sensitive guardrail
SqlUpper_NoUpper(query) == Strip(query)

\* sql_upper = query.upper().strip()
SqlUpper(query) == Strip(Upper(query))

\* `keyword in sql_upper`: a substring test instead of a token test
KeywordInTokens_Substring(keyword, sql_upper) == SubstringOf(keyword, sql_upper)

\* `keyword in sql_upper.split()`
KeywordInTokens(keyword, sql_upper) ==
    LET tokens == Split(sql_upper)
    IN  \E j \in DOMAIN tokens : tokens[j] = keyword

\* the for loop over BLOCKED_KEYWORDS from index k on: the first keyword of the
\* list that is a token of sql_upper, or no keyword when the loop falls through
RECURSIVE FirstBlocked(_, _)
FirstBlocked(sql_upper, k) ==
    IF k > Len(BLOCKED_KEYWORDS)
    THEN [blocked |-> FALSE, keyword |-> <<>>]
    ELSE IF KeywordInTokens(BLOCKED_KEYWORDS[k], sql_upper)
         THEN [blocked |-> TRUE, keyword |-> BLOCKED_KEYWORDS[k]]
         ELSE FirstBlocked(sql_upper, k + 1)

\* the guardrail of execute_sql: whether a keyword blocks the query, and which
GuardrailCheck(query) == FirstBlocked(SqlUpper(query), 1)

BlockedEnvelope(keyword) ==
    [status |-> "blocked",
     message |-> <<"Query blocked: contains '", keyword,
                   "' operation. This agent is read-only and cannot modify data.">>]


ErrorEnvelope(message) == [status |-> "error", message |-> message]

NoEnv == [status |-> "none"]

\* how a tool function ends: `return env`, or an exception leaving the function
Return(env) == [pc |-> "ret", env |-> env]
Escape == [pc |-> "raised", env |-> NoEnv]

(***************************************************************************)
(* The store (bq_client) as the tools see it.                              *)
(***************************************************************************)
\* the exceptions the client raises; str(e) is the message
StoreErrors ==
    {[type |-> "BadRequest", message |-> "400 Syntax error"],
     [type |-> "Forbidden", message |-> "403 Access Denied"]}

Str(e) == e.message

\* a bigquery Row: field names and values, in column order
Row(i) == [keys |-> <<"id", "total">>, values |-> <<i, 10 * i>>]

\* dict(row)
DictOfRow(row) ==
    [k \in {row.keys[j] : j \in DOMAIN row.keys} |->
        row.values[CHOOSE j \in DOMAIN row.keys : row.keys[j] = k]]

Ascending(n) == [i \in 1..n |-> Row(i)]
Descending(n) == [i \in 1..n |-> Row(n + 1 - i)]

Min(a, b) == IF a <= b THEN a ELSE b

\* what bq_client.query(query).result() and the iteration over it can do:
\* raise from query(), raise from result(), raise while iterating after
\* yielding some rows, or yield all rows
QueryOutcomes(maxRows) ==
    {[kind |-> "query_error", error |-> e, rows |-> <<>>] : e \in StoreErrors}
        \cup {[kind |-> "result_error", error |-> e, rows |-> <<>>] : e \in StoreErrors}
        \cup {[kind |-> "iter_error", error |-> e, rows |-> Ascending(n)] :
                e \in StoreErrors, n \in 0..maxRows}
        \cup {[kind |-> "rows", error |-> None, rows |-> Ascending(n)] : n \in 0..maxRows}
        \cup {[kind |-> "rows", error |-> None, rows |-> Descending(n)] : n \in 0..maxRows}

\* the queries of the model that scan a table larger than the row cap
WideQueries == {<<"x">>, <<"s", "e", "l", "e", "c", "t", " ", "*">>}

StoreQueryOutcomes(query) ==
    IF query \in WideQueries
    THEN QueryOutcomes(RowCap + ExtraRows)
    ELSE QueryOutcomes(MaxNarrowRows)

(***************************************************************************)
(* execute_sql                                                             *)
(***************************************************************************)
\* len(rows) taken after the truncation
RowCount_OfPayload(rows) == Min(Len(rows), RowCap)

\* "row_count": len(rows)
RowCount(rows) == Len(rows)

\* "results": rows[:50]
ResultsPayload(rows) == SubSeq(rows, 1, Min(Len(rows), RowCap))

\* an exception raised while iterating leaves the function
ExecuteSqlTry_IterEscapes(out) ==
    IF out.kind = "rows"
    THEN LET rows == [i \in DOMAIN out.rows |-> DictOfRow(out.rows[i])]
         IN  Return([status |-> "success",
                     row_count |-> RowCount(rows),
                     results |-> ResultsPayload(rows)])
    ELSE IF out.kind = "iter_error"
         THEN Escape
         ELSE Return(ErrorEnvelope(Str(out.error)))

\* the try block of execute_sql on the store's answer `out`
ExecuteSqlTry(out) ==
    IF out.kind = "rows"
    THEN LET rows == [i \in DOMAIN out.rows |-> DictOfRow(out.rows[i])]
         IN  Return([status |-> "success",
                     row_count |-> RowCount(rows),
                     results |-> ResultsPayload(rows)])
    ELSE Return(ErrorEnvelope(Str(out.error)))

\* lines 55-64: the keyword loop; a match returns the blocked dict at once
ExecuteSqlGuard ==
    /\ tpc = "entry"
    /\ tname = "execute_sql"
    /\ LET check == GuardrailCheck(Arg(targs, "query"))
       IN  IF check.blocked
           THEN /\ tpc' = "ret"
                /\ tenv' = BlockedEnvelope(check.keyword)
           ELSE /\ tpc' = "store"
                /\ tenv' = tenv
    /\ UNCHANGED <<tname, targs, storeCalls, storeResult>>
    /\ UNCHANGED dispatchVars

\* lines 66-83: query the store, materialise the rows, build the dict
ExecuteSqlRun ==
    /\ tpc = "store"
    /\ tname = "execute_sql"
    /\ \E out \in StoreQueryOutcomes(Arg(targs, "query")) :
        LET end == ExecuteSqlTry(out)
        IN  /\ storeCalls' = Append(storeCalls, [op |-> "query", arg |-> Arg(targs, "query")])
            /\ storeResult' = out
            /\ tpc' = end.pc
            /\ tenv' = end.env
    /\ UNCHANGED <<tname, targs>>
    /\ UNCHANGED dispatchVars

(***************************************************************************)
(* get_schema                                                              *)
(***************************************************************************)
TableNames == {"orders", "products", ""}

\* f"{PROJECT_ID}.{DATASET_ID}.{table_name}"
TableRef(table_name) == <<PROJECT_ID, ".", DATASET_ID, ".", table_name>>

SchemaFields ==
    {[name |-> "product_id", field_type |-> "INT64", mode |-> "REQUIRED"],
     [name |-> "is_active", field_type |-> "BOOL", mode |-> "NULLABLE"],
     [name |-> "tags", field_type |-> "STRING", mode |-> "REPEATED"]}

\* the sequences without repetition over S of length at most n
RECURSIVE SeqsUpTo(_, _)
SeqsUpTo(S, n) ==
    IF n = 0
    THEN {<<>>}
    ELSE LET shorter == SeqsUpTo(S, n - 1)
         IN  shorter \cup
             {Append(q[1], q[2]) :
                q \in {p \in shorter \X S :
                         /\ Len(p[1]) = n - 1
                         /\ \A j \in DOMAIN p[1] : p[1][j] # p[2]}}

\* what bq_client.get_table(table_ref) can do: raise, or return a table
GetTableOutcomes ==
    {[kind |-> "error", error |-> e, schema |-> <<>>, num_rows |-> 0] : e \in StoreErrors}
        \cup {[kind |-> "table", error |-> None, schema |-> sch, num_rows |-> n] :
                sch \in SeqsUpTo(SchemaFields, MaxFields), n \in 0..MaxNarrowRows}

\* the try block of get_schema on the store's answer `out`
GetSchemaTry(table_ref, out) ==
    IF out.kind = "table"
    THEN Return([status |-> "success",
                 table |-> table_ref,
                 total_rows |-> out.num_rows,
                 columns |-> [i \in DOMAIN out.schema |->
                                [name |-> out.schema[i].name,
                                 type |-> out.schema[i].field_type,
                                 mode |-> out.schema[i].mode]]])
    ELSE Return(ErrorEnvelope(Str(out.error)))

\* lines 95-117, the whole function
GetSchema ==
    /\ tpc = "entry"
    /\ tname = "get_schema"
    /\ \E out \in GetTableOutcomes :
        LET table_ref == TableRef(Arg(targs, "table_name"))
            end == GetSchemaTry(table_ref, out)
        IN  /\ storeCalls' = Append(storeCalls, [op |-> "get_table", arg |-> table_ref])
            /\ storeResult' = out
            /\ tpc' = end.pc
            /\ tenv' = end.env
    /\ UNCHANGED <<tname, targs>>
    /\ UNCHANGED dispatchVars

(***************************************************************************)
(* list_tables                                                             *)
(***************************************************************************)
\* f"{PROJECT_ID}.{DATASET_ID}"
DatasetRef == <<PROJECT_ID, ".", DATASET_ID>>

TableItems ==
    {[table_id |-> "orders"], [table_id |-> "customers"], [table_id |-> "products"]}

\* what bq_client.list_tables(dataset) and the iteration over it can do
ListTablesOutcomes ==
    {[kind |-> "error", error |-> e, tables |-> <<>>] : e \in StoreErrors}
        \cup {[kind |-> "iter_error", error |-> e, tables |-> ts] :
                e \in StoreErrors, ts \in SeqsUpTo(TableItems, MaxFields)}
        \cup {[kind |-> "tables", error |-> None, tables |-> ts] :
                ts \in SeqsUpTo(TableItems, MaxFields)}

\* the try block of list_tables on the store's answer `out`
ListTablesTry(out) ==
    IF out.kind = "tables"
    THEN Return([status |-> "success",
                 dataset |-> DatasetRef,
                 tables |-> [i \in DOMAIN out.tables |-> out.tables[i].table_id]])
    ELSE Return(ErrorEnvelope(Str(out.error)))

\* lines 126-138, the whole function
ListTables ==
    /\ tpc = "entry"
    /\ tname = "list_tables"
    /\ \E out \in ListTablesOutcomes :
        LET end == ListTablesTry(out)
        IN  /\ storeCalls' = Append(storeCalls, [op |-> "list_tables", arg |-> DatasetRef])
            /\ storeResult' = out
            /\ tpc' = end.pc
            /\ tenv' = end.env
    /\ UNCHANGED <<tname, targs>>
    /\ UNCHANGED dispatchVars

(***************************************************************************)
(* The tool functions called directly.                                     *)
(***************************************************************************)
\* a few queries: allowed, allowed with a keyword inside a token, blocked
SampleQueries ==
    {<<"x">>,
     <<"x", ";", "d", "r", "o", "p">>,
     <<"d", "r", "o", "p", " ", "x">>,
     <<"D", "E", "L", "E", "T", "E", "\n", "x">>}

\* the pieces a query of the model is concatenated from: every keyword in
\* lower case, one in mixed case, a separator and identifier fragments
Lower(s) ==
    [i \in DOMAIN s |->
        IF \E j \in DOMAIN UpperLetters : UpperLetters[j] = s[i]
        THEN LowerLetters[CHOOSE j \in DOMAIN UpperLetters : UpperLetters[j] = s[i]]
        ELSE s[i]]

Pieces ==
    {Lower(BLOCKED_KEYWORDS[k]) : k \in DOMAIN BLOCKED_KEYWORDS}
        \cup {<<"D","r","o","P">>, <<" ">>, <<"_","c">>}

RECURSIVE Concats(_)
Concats(n) ==
    IF n = 0
    THEN {<<>>}
    ELSE LET shorter == Concats(n - 1)
         IN  shorter \cup {q \o p : q \in shorter, p \in Pieces}

Queries == Concats(MaxPieces) \cup WideQueries \cup SampleQueries

DataTools == {"execute_sql", "get_schema", "list_tables"}

ToolCallsOn(queries) ==
    {[name |-> "execute_sql", args |-> Args("query", q)] : q \in queries}
        \cup {[name |-> "get_schema", args |-> Args("table_name", t)] : t \in TableNames}
        \cup {[name |-> "list_tables", args |-> NoArgs]}

ToolCalls == ToolCallsOn(Queries)

SampleToolCalls == ToolCallsOn(SampleQueries)

toolInit ==
    /\ tname = "none"
    /\ targs = NoArgs
    /\ tpc = "none"
    /\ tenv = NoEnv
    /\ storeCalls = <<>>
    /\ storeResult = [kind |-> "none"]

dispatchInit ==
    /\ dpc = "idle"
    /\ req = [name |-> "none", args |-> NoArgs]
    /\ ret = NoEnv
    /\ events = <<>>
    /\ audit = <<>>

Init == dispatchInit /\ toolInit

\* a caller calls one of the three tool functions
Call(calls) ==
    /\ tpc = "none"
    /\ \E c \in calls :
        /\ tname' = c.name
        /\ targs' = c.args
    /\ tpc' = "entry"
    /\ UNCHANGED <<tenv, storeCalls, storeResult>>
    /\ UNCHANGED dispatchVars

CallTool == Call(ToolCalls)

CallSampleTool == Call(SampleToolCalls)

\* the caller has the returned dict; the next call starts from nothing
ToolDone ==
    /\ tpc = "ret"
    /\ tname' = "none"
    /\ targs' = NoArgs
    /\ tpc' = "none"
    /\ tenv' = NoEnv
    /\ storeCalls' = <<>>
    /\ storeResult' = [kind |-> "none"]
    /\ UNCHANGED dispatchVars

ToolNext ==
    \/ CallTool
    \/ ExecuteSqlGuard
    \/ ExecuteSqlRun
    \/ GetSchema
    \/ ListTables
    \/ ToolDone

ToolSpec == Init /\ [][ToolNext]_vars

\* the steps of the tool functions
ToolBody == ExecuteSqlGuard \/ ExecuteSqlRun \/ GetSchema \/ ListTables

SampleToolNext ==
    \/ CallSampleTool
    \/ ExecuteSqlGuard
    \/ ExecuteSqlRun
    \/ GetSchema
    \/ ListTables
    \/ ToolDone

\* a called function runs on: the calls are synchronous, and every store
\* operation of the model answers, by returning or by raising
ToolFairSpec == Init /\ [][SampleToolNext]_vars /\ WF_vars(ToolBody)

(***************************************************************************)
(* The callbacks.  A callback either prints its line and returns None, or  *)
(* an exception of str() or print() leaves it: neither has a try block.    *)
(***************************************************************************)
\* what the audit sink does with one print: take the line, or fail
SinkOutcomes == {"ok", "fail"}

\* str(v)[:n], kept as the value and the cut
Preview(v, n) == [str_of |-> v, cut |-> n]

CallbackEnd(raised, printed, result) ==
    [raised |-> raised, printed |-> printed, result |-> result]

\* a before callback that answers the call itself
before_tool_callback_Answers(tool, args, sink) ==
    IF sink = "ok"
    THEN CallbackEnd(FALSE,
            <<[line |-> "BEFORE TOOL", tool |-> tool,
               preview |-> Preview(args, ArgsPreviewLen)]>>,
            ErrorEnvelope("skipped"))
    ELSE CallbackEnd(TRUE, <<>>, None)

\* lines 144-147
before_tool_callback(tool, args, sink) ==
    IF sink = "ok"
    THEN CallbackEnd(FALSE,
            <<[line |-> "BEFORE TOOL", tool |-> tool,
               preview |-> Preview(args, ArgsPreviewLen)]>>,
            None)
    ELSE CallbackEnd(TRUE, <<>>, None)

\* lines 150-154
after_tool_callback(tool, args, tool_response, sink) ==
    IF sink = "ok"
    THEN CallbackEnd(FALSE,
            <<[line |-> "AUDIT LOG", tool |-> tool,
               preview |-> Preview(tool_response, ResponsePreviewLen)]>>,
            None)
    ELSE CallbackEnd(TRUE, <<>>, None)

(***************************************************************************)
(* sql_validator: an Agent with an instruction and no tools, wrapped in an *)
(* AgentTool.  Its answer is the language model's; the only operations it  *)
(* can perform are the tools it was constructed with.                      *)
(***************************************************************************)
\* a validator constructed with the data tools
SqlValidatorTools_DataTools == DataTools

\* Agent(name="sql_validator", ...) is given no tools
SqlValidatorTools == {}

\* the store operations a data tool performs when the validator calls it on
\* the query under review
ToolStoreOps(tool, query) ==
    IF tool = "execute_sql"
    THEN IF GuardrailCheck(query).blocked
         THEN <<>>
         ELSE <<[op |-> "query", arg |-> query]>>
    ELSE IF tool = "get_schema"
         THEN <<[op |-> "get_table", arg |-> TableRef("orders")]>>
         ELSE <<[op |-> "list_tables", arg |-> DatasetRef]>>

\* one run of the validator: the tools it calls (at most one here) and its verdict
ValidatorRuns ==
    {[calls |-> c, verdict |-> v] :
        c \in {<<>>} \cup {<<t>> : t \in SqlValidatorTools},
        v \in {"SAFE", "UNSAFE"}}

SqlValidator ==
    /\ tpc = "entry"
    /\ tname = "sql_validator"
    /\ \E run \in ValidatorRuns :
        /\ storeCalls' =
             IF run.calls = <<>>
             THEN storeCalls
             ELSE storeCalls \o ToolStoreOps(run.calls[1], Arg(targs, "request"))
        /\ events' = events \o [i \in DOMAIN run.calls |-> <<"tool", run.calls[i]>>]
        /\ tenv' = [result |-> <<"VERDICT: ", run.verdict>>]
    /\ tpc' = "ret"
    /\ UNCHANGED <<tname, targs, storeResult>>
    /\ UNCHANGED <<dpc, req, ret, audit>>

(***************************************************************************)
(* The dispatch of a tool call by the root agent.                          *)
(***************************************************************************)
\* tools=[execute_sql, get_schema, list_tables, sql_validator_tool]
Registry == <<"execute_sql", "get_schema", "list_tables", "sql_validator">>

Registered(name) == \E i \in DOMAIN Registry : Registry[i] = name

Requests ==
    {[name |-> "execute_sql", args |-> Args("query", q)] : q \in SampleQueries}
        \cup {[name |-> "get_schema", args |-> Args("table_name", t)] : t \in TableNames}
        \cup {[name |-> "list_tables", args |-> NoArgs]}
        \cup {[name |-> "sql_validator", args |-> Args("request", q)] : q \in SampleQueries}

\* the root agent's model asks for one of the registered tools
Dispatch ==
    /\ dpc = "idle"
    /\ \E r \in Requests :
        /\ Registered(r.name)
        /\ req' = r
    /\ dpc' = "pre"
    /\ UNCHANGED <<ret, events, audit>>
    /\ UNCHANGED toolVars

\* before_tool_callback=before_tool_callback: the callback runs before the
\* tool; None lets the tool run with the request's arguments, a dict answers
\* in the tool's place; an exception of the callback leaves the dispatch
PreHook ==
    /\ dpc = "pre"
    /\ \E sink \in SinkOutcomes :
        LET cb == before_tool_callback(req.name, req.args, sink)
        IN  /\ audit' = audit \o cb.printed
            /\ IF cb.raised
               THEN /\ dpc' = "raised"
                    /\ events' = Append(events, <<"pre">>)
                    /\ UNCHANGED <<ret, tname, targs, tpc>>
               ELSE IF cb.result = None
                    THEN /\ dpc' = "body"
                         /\ events' = events \o << <<"pre">>, <<"body">> >>
                         /\ tname' = req.name
                         /\ targs' = req.args
                         /\ tpc' = "entry"
                         /\ ret' = ret
                    ELSE /\ dpc' = "answered"
                         /\ events' = Append(events, <<"pre">>)
                         /\ ret' = cb.result
                         /\ UNCHANGED <<tname, targs, tpc>>
    /\ UNCHANGED <<req, tenv, storeCalls, storeResult>>

\* after_tool_callback=after_tool_callback: the callback runs on the tool's
\* response; None keeps the response, a dict replaces it; an exception of the
\* callback leaves the dispatch
PostHook ==
    /\ dpc \in {"body", "answered"}
    /\ dpc = "body" => tpc = "ret"
    /\ \E sink \in SinkOutcomes :
        LET response == IF dpc = "body" THEN tenv ELSE ret
            cb == after_tool_callback(req.name, req.args, response, sink)
        IN  /\ audit' = audit \o cb.printed
            /\ events' = Append(events, <<"post">>)
            /\ IF cb.raised
               THEN /\ dpc' = "raised"
                    /\ ret' = NoEnv
               ELSE /\ dpc' = "returned"
                    /\ ret' = IF cb.result = None THEN response ELSE cb.result
    /\ UNCHANGED req
    /\ UNCHANGED toolVars

\* the caller has the outcome; dispatch keeps nothing from one call to the next
DispatchDone ==
    /\ dpc \in {"returned", "raised"}
    /\ dpc' = "idle"
    /\ req' = [name |-> "none", args |-> NoArgs]
    /\ ret' = NoEnv
    /\ events' = <<>>
    /\ audit' = <<>>
    /\ tname' = "none"
    /\ targs' = NoArgs
    /\ tpc' = "none"
    /\ tenv' = NoEnv
    /\ storeCalls' = <<>>
    /\ storeResult' = [kind |-> "none"]

Next ==
    \/ Dispatch
    \/ PreHook
    \/ ExecuteSqlGuard
    \/ ExecuteSqlRun
    \/ GetSchema
    \/ ListTables
    \/ SqlValidator
    \/ PostHook
    \/ DispatchDone

Spec == Init /\ [][Next]_vars

(***************************************************************************)
(* Properties of the tool functions, checked under ToolSpec.               *)
(***************************************************************************)
\* the forbidden keywords, in the order the policy lists them
PolicyOrder ==
    << <<"D","E","L","E","T","E">>,
       <<"D","R","O","P">>,
       <<"T","R","U","N","C","A","T","E">>,
       <<"U","P","D","A","T","E">>,
       <<"I","N","S","E","R","T">>,
       <<"A","L","T","E","R">>,
       <<"C","R","E","A","T","E">>,
       <<"M","E","R","G","E">>,
       <<"G","R","A","N","T">>,
       <<"R","E","V","O","K","E">> >>

\* word stands in q as a whole whitespace-delimited token, in any letter case
HasWholeToken(q, word) ==
    \E i \in 1..(Len(q) - Len(word) + 1) :
        /\ i = 1 \/ q[i - 1] \in Whitespace
        /\ i + Len(word) - 1 = Len(q) \/ q[i + Len(word)] \in Whitespace
        /\ \A k \in 1..Len(word) : UpperChar[q[i + k - 1]] = word[k]

\* word stands somewhere in q, in any letter case
HasSubstring(q, word) ==
    \E i \in 1..(Len(q) - Len(word) + 1) :
        \A k \in 1..Len(word) : UpperChar[q[i + k - 1]] = word[k]

HasForbiddenToken(q) == \E k \in DOMAIN PolicyOrder : HasWholeToken(q, PolicyOrder[k])

\* the query of the execute_sql call in progress
Query == Arg(targs, "query")

InExecuteSql == tname = "execute_sql" /\ tpc # "none"

\* C1: a query with a forbidden keyword as a whole token, in any letter case,
\* ends execute_sql with the blocked dict and without any store operation;
\* every query the store was asked to run is the call's own query and has no
\* forbidden token, so it passed the keyword check.
C1_ForbiddenTokenBlocked ==
    InExecuteSql =>
        /\ \A i \in DOMAIN storeCalls :
            /\ storeCalls[i] = [op |-> "query", arg |-> Query]
            /\ ~HasForbiddenToken(storeCalls[i].arg)
        /\ (HasForbiddenToken(Query) /\ tpc # "entry") =>
            /\ tpc = "ret"
            /\ tenv.status = "blocked"
            /\ storeCalls = <<>>
            /\ storeResult.kind = "none"

\* a mixed-case keyword after another token was blocked
C1_Witness ==
    /\ InExecuteSql
    /\ Query = <<"_", "c", " ", "D", "r", "o", "P">>
    /\ tpc = "ret"
    /\ tenv.status = "blocked"

\* some forbidden keyword stands inside a token of q, none is a token of q
KeywordOnlyInsideTokens(q) ==
    /\ \E k \in DOMAIN PolicyOrder : HasSubstring(q, PolicyOrder[k])
    /\ ~HasForbiddenToken(q)

\* C2: a query in which forbidden keywords occur only inside longer tokens is
\* not blocked: execute_sql goes on to submit exactly that query to the store.
C2_SubstringAllowed ==
    (InExecuteSql /\ KeywordOnlyInsideTokens(Query) /\ tpc # "entry") =>
        /\ tenv.status # "blocked"
        /\ tpc = "store" \/ storeCalls = <<[op |-> "query", arg |-> Query]>>

\* update_c was submitted to the store and answered
C2_Witness ==
    /\ InExecuteSql
    /\ Query = <<"u", "p", "d", "a", "t", "e", "_", "c">>
    /\ tpc = "ret"
    /\ tenv.status = "success"
    /\ storeCalls = <<[op |-> "query", arg |-> Query]>>

\* C3: a success dict of execute_sql on a store result of n rows has
\* row_count = n and as results the first min(n, 50) rows, in the store's order.
C3_RowCountIsFullCount ==
    (InExecuteSql /\ tpc = "ret" /\ tenv.status = "success") =>
        LET n == Len(storeResult.rows)
            m == IF n > 50 THEN 50 ELSE n
        IN  /\ storeResult.kind = "rows"
            /\ tenv.row_count = n
            /\ Len(tenv.results) = m
            /\ \A i \in 1..m :
                \A j \in DOMAIN storeResult.rows[i].keys :
                    /\ DOMAIN tenv.results[i] =
                         {storeResult.rows[i].keys[c] : c \in DOMAIN storeResult.rows[i].keys}
                    /\ tenv.results[i][storeResult.rows[i].keys[j]] =
                         storeResult.rows[i].values[j]

\* 52 rows in descending order: row_count 52, 50 rows in the payload
C3_Witness ==
    /\ InExecuteSql
    /\ tpc = "ret"
    /\ tenv.status = "success"
    /\ Len(storeResult.rows) = 52
    /\ storeResult.rows[1].values[1] = 52
    /\ tenv.row_count = 52
    /\ Len(tenv.results) = 50

StoreFailed == storeResult.kind \in {"query_error", "result_error", "iter_error", "error"}

ToolEnvelopeOk ==
    /\ tpc # "raised"
    /\ (tname \in DataTools /\ tpc = "ret") =>
        /\ tenv.status \in {"success", "blocked", "error"}
        /\ StoreFailed => tenv = [status |-> "error", message |-> storeResult.error.message]
        /\ tenv.status = "error" => StoreFailed

\* C7: list_tables, get_schema and execute_sql never let an exception out;
\* every call ends by returning; what is returned carries the tag success,
\* blocked or error, and after a store failure it is the error dict with the
\* store's message and nothing else.
C7_AlwaysAnEnvelope ==
    /\ []ToolEnvelopeOk
    /\ (tpc = "entry") ~> (tpc = "ret")

\* the store failed after yielding a row and execute_sql returned the error dict
C7_Witness ==
    /\ tname = "execute_sql"
    /\ tpc = "ret"
    /\ storeResult.kind = "iter_error"
    /\ Len(storeResult.rows) = 1
    /\ tenv.status = "error"

\* the policy keywords that are whole tokens of q, as positions of PolicyOrder
TokensOfPolicy(q) == {k \in DOMAIN PolicyOrder : HasWholeToken(q, PolicyOrder[k])}

\* C10: the blocked dict names the keyword that comes first in the policy
\* order among those that are whole tokens of the query, wherever they stand
\* in the query; a query with no such token is not blocked.
C10_FirstInPolicyOrder ==
    (InExecuteSql /\ tpc # "entry") =>
        LET present == TokensOfPolicy(Query)
        IN  IF present = {}
            THEN tenv.status # "blocked"
            ELSE LET first == CHOOSE k \in present : \A j \in present : k <= j
                 IN  /\ tpc = "ret"
                     /\ tenv.status = "blocked"
                     /\ tenv.message[2] = PolicyOrder[first]

\* "drop delete" is blocked for DELETE, the later token but the earlier rule
C10_Witness ==
    /\ InExecuteSql
    /\ Query = <<"d", "r", "o", "p", " ", "d", "e", "l", "e", "t", "e">>
    /\ tpc = "ret"
    /\ tenv.status = "blocked"
    /\ tenv.message[2] = <<"D", "E", "L", "E", "T", "E">>

(***************************************************************************)
(* Properties of the dispatch with its callbacks, checked under Spec.      *)
(***************************************************************************)
DispatchOver == dpc \in {"returned", "raised"}

\* C4: every dispatch of a registered tool runs pre-hook, tool body and
\* post-hook once each, in that order, and leaves exactly one pre-call and
\* one post-call audit record, whatever the outcome of the tool body.
C4_TwoAuditRecords ==
    DispatchOver =>
        /\ events = << <<"pre">>, <<"body">>, <<"post">> >>
        /\ Len(audit) = 2
        /\ audit[1].line = "BEFORE TOOL"
        /\ audit[2].line = "AUDIT LOG"

\* C6: a dispatch of sql_validator, on any query, performs no store operation
\* and calls no data tool.
C6_ValidatorTouchesNoStore ==
    (dpc # "idle" /\ req.name = "sql_validator") =>
        /\ storeCalls = <<>>
        /\ storeResult.kind = "none"
        /\ \A i \in DOMAIN events : events[i][1] # "tool"
        /\ tname \in {"none", "sql_validator"}

\* the validator answered on a DELETE query and the dispatch returned
C6_Witness ==
    /\ dpc = "returned"
    /\ req = [name |-> "sql_validator",
              args |-> Args("request", <<"D", "E", "L", "E", "T", "E", "\n", "x">>)]
    /\ ret = [result |-> <<"VERDICT: ", "SAFE">>]
    /\ storeCalls = <<>>

\* C8: a failure to emit an audit record is swallowed: no dispatch ends with
\* an exception, the tool body runs even after a failed pre-hook, and the
\* caller receives the dict the tool body returned.
C8_LoggingFailureSwallowed ==
    DispatchOver =>
        /\ dpc = "returned"
        /\ tpc = "ret"
        /\ ret = tenv

====
